---- MODULE Spec2Model ----
(***************************************************************************)
(* Model of the TAU2-Bench evaluation report generator                     *)
(* (generate_excel_report.py): ingestion of trial records by               *)
(* generate_report, the per-trial verdict (pass flag, tool deltas, failed  *)
(* assertions, failure taxonomy) and the workbook whose formula cells      *)
(* compute the Pass^k aggregates; and of the run-time recovery of tool-call *)
(* arguments (llm_utils.py: generate, _safe_parse_tool_arguments,          *)
(* _parse_text_tool_call) whose raw payloads the report re-reads.          *)
(*                                                                         *)
(* Numbers that the program holds as floats are modelled as exact          *)
(* rationals [num, den]; the inputs are chosen so that the float           *)
(* operations of the program are exact on them (dyadic values next to 1.0, *)
(* decimal values far from the tolerance boundary).                        *)
(***************************************************************************)
EXTENDS Integers, Sequences, FiniteSets, TLC

VARIABLES
    task_meta,   \* generate_report: task_meta[(domain, tid)]["gt_raw"].actions
    runs,        \* generate_report: the list `runs` (one dict per trial)
    all_logs,    \* generate_report: the list `all_logs`
    ws_run,      \* the sheet "런" written by create_runs_sheet (data rows)
    ws_task,     \* the sheet "Task별_집계", formula cells evaluated
    ws_summary,  \* the sheet "요약": ranking table and matrix, cells evaluated
    pc,          \* "simulate" while the trial runs, "ingest" while the report
                 \* scans the result files, "saved" after wb.save, "crashed"
                 \* after an exception that nothing catches
    sims,        \* the records of data["simulations"] read so far
    transcript,  \* the messages of the running trial (llm_utils.generate)
    calls        \* history: one entry per tool call handled by generate

vars == <<task_meta, runs, all_logs, ws_run, ws_task, ws_summary, ws_summary, pc, sims, transcript, calls>>

(***************************************************************************)
(* Bounds of the model.                                                    *)
(***************************************************************************)
MaxRuns == 4         \* trials ingested in the aggregation specification

MaxPairRuns == 2     \* trials ingested in the pair specification

(***************************************************************************)
(* Rationals.                                                              *)
(***************************************************************************)
Rat(n, d) == [num |-> n, den |-> d]

RatEq(a, b) == a.num * b.den = b.num * a.den

Abs(x) == IF x < 0 THEN -x ELSE x

(***************************************************************************)
(* Python and JSON values.                                                 *)
(***************************************************************************)
\* an optional number: JSON null / missing key is present = FALSE
NoneNum == [present |-> FALSE, num |-> 0, den |-> 1]

SomeNum(n, d) == [present |-> TRUE, num |-> n, den |-> d]

\* a value that is present and is not a number (the string "high", a list):
\* float() raises on it; den = 0 marks it
NotNum == [present |-> TRUE, num |-> 0, den |-> 0]

\* float(x) of a number that is present
float(x) == Rat(x.num, x.den)

\* ", ".join / set / sorted work on tool names; names are kept in the fixed
\* alphabetical order of this sequence, which is what sorted() produces
ToolOrder == <<"cancel_order", "get_order", "refund">>

\* sorted(S) for a set of tool names
sorted(S) == SelectSeq(ToolOrder, LAMBDA t : t \in S)

\* set(seq)
SetOf(seq) == {seq[i] : i \in DOMAIN seq}

(***************************************************************************)
(* Strings of the trial records.                                           *)
(***************************************************************************)
\* termination_reason values; "N/A" is the default of a missing key and ""
\* stands for a JSON null (str(None or "") in create_runs_sheet)
Terminations ==
    {"agent_stop", "user_stop", "max_steps", "max_turns", "too_many_errors",
     "agent_error", "user_error", "N/A", ""}

\* the patterns _make_fail_reason looks for that occur in the string s
\* (Python `pat in s`, tabulated over Terminations)
Occurring(s) ==
    CASE s = "too_many_errors" -> {"too_many_errors"}
      [] s = "max_steps" -> {"max_steps"}
      [] s = "max_turns" -> {"max_turns"}
      [] OTHER -> {}

\* raw tool-call argument payloads of raw_data.message.tool_calls[*].function;
\* PyNone is a JSON null, PyDict an argument value that is already an object
PyNone == "<None>"

PyDict == "<dict>"

RawArguments ==
    {PyNone, PyDict, "", "  ", "null", "None", "{\"id\": 1}", "{'id': 1}",
     "id: 1", "[1]", "oops"}

\* str(args).strip()
strip(s) == IF s = "  " THEN "" ELSE s

\* s.lower()
lower(s) ==
    CASE s = "None" -> "none"
      [] s = "NULL" -> "null"
      [] OTHER -> s

\* a Python value: its type and its JSON rendering (json.dumps)
PyVal(type, text) == [type |-> type, text |-> text]

\* the outcome of a parser: the value it returns, or the fact that it raises
Parsed(v) == [raises |-> FALSE, value |-> v]

Raises == [raises |-> TRUE, value |-> PyVal("NoneType", "null")]

\* json.loads(s), tabulated over the payloads of the model
json_loads(s) ==
    CASE s = "null" -> Parsed(PyVal("NoneType", "null"))
      [] s = "{\"id\": 1}" -> Parsed(PyVal("dict", "{\"id\": 1}"))
      [] s = "{}" -> Parsed(PyVal("dict", "{}"))
      [] s = "[1]" -> Parsed(PyVal("list", "[1]"))
      [] s = "\"a:b\"" -> Parsed(PyVal("str", "\"a:b\""))
      [] s = "{\"a\": \"\\/\"}" -> Parsed(PyVal("dict", "{\"a\": \"/\"}"))
      [] s = "{\"status\": \"ok\"}" -> Parsed(PyVal("dict", "{\"status\": \"ok\"}"))
      [] OTHER -> Raises

\* json.loads(s) returns without raising JSONDecodeError
json_loads_ok(s) == ~json_loads(s).raises

\* ast.literal_eval(s), tabulated over the payloads of the model
literal_eval(s) ==
    CASE s = "None" -> Parsed(PyVal("NoneType", "null"))
      [] s = "True" -> Parsed(PyVal("bool", "true"))
      [] s = "{\"id\": 1}" -> Parsed(PyVal("dict", "{\"id\": 1}"))
      [] s = "{}" -> Parsed(PyVal("dict", "{}"))
      [] s = "[1]" -> Parsed(PyVal("list", "[1]"))
      [] s = "\"a:b\"" -> Parsed(PyVal("str", "\"a:b\""))
      [] s = "{'id': 1}" -> Parsed(PyVal("dict", "{\"id\": 1}"))
      [] s = "{'a': 1}" -> Parsed(PyVal("dict", "{\"a\": 1}"))
      [] s = "{\"a\": \"\\/\"}" -> Parsed(PyVal("dict", "{\"a\": \"\\\\/\"}"))
      [] s = "{\"status\": \"ok\"}" -> Parsed(PyVal("dict", "{\"status\": \"ok\"}"))
      [] OTHER -> Raises

\* s.startswith("{"), tabulated
startswith_brace(s) ==
    s \in {"{\"id\": 1}", "{}", "{'id': 1}", "{'a': 1}", "{\"a\": \"\\/\"}",
           "{\"id\": 1", "{\"status\": \"ok\"}"}

\* ":" in s, tabulated
contains_colon(s) ==
    s \in {"{\"id\": 1}", "{'id': 1}", "{'a': 1}", "{\"a\": \"\\/\"}", "{\"id\": 1",
           "{\"status\": \"ok\"}", "id: 1", "status: \"ok\"", "\"status\": \"ok\"",
           "\"a:b\""}

(***************************************************************************)
(* _extract_failed_env_assertions: the entries are identified by the       *)
(* assertion's function name.                                              *)
(***************************************************************************)
\* mutant of _extract_failed_env_assertions: every flag other than true fails
RECURSIVE _extract_failed_env_assertions_NotMet(_)
_extract_failed_env_assertions_NotMet(items) ==
    IF items = <<>> THEN <<>>
    ELSE LET item == Head(items)
             rest == _extract_failed_env_assertions_NotMet(Tail(items))
         IN  IF ~item.is_dict THEN rest
             ELSE IF item.met # "True" /\ item.env_is_dict
                  THEN <<IF item.func_name = "" THEN "unknown_assertion"
                         ELSE item.func_name>> \o rest
                  ELSE rest

RECURSIVE _extract_failed_env_assertions(_)
_extract_failed_env_assertions(items) ==
    IF items = <<>> THEN <<>>
    ELSE LET item == Head(items)
             rest == _extract_failed_env_assertions(Tail(items))
         IN  IF ~item.is_dict THEN rest
             ELSE IF item.met = "False" /\ item.env_is_dict
                  THEN <<IF item.func_name = "" THEN "unknown_assertion"
                         ELSE item.func_name>> \o rest
                  ELSE rest

(***************************************************************************)
(* _extract_action_mismatches: the entries are identified by the action    *)
(* name.                                                                   *)
(***************************************************************************)
RECURSIVE _extract_action_mismatches(_)
_extract_action_mismatches(items) ==
    IF items = <<>> THEN <<>>
    ELSE LET item == Head(items)
             rest == _extract_action_mismatches(Tail(items))
         IN  IF ~item.is_dict THEN rest
             ELSE IF item.action_match = "False"
                  THEN <<IF item.name = "" THEN "unknown_action"
                         ELSE item.name>> \o rest
                  ELSE rest

(***************************************************************************)
(* _extract_tool_args_json_errors: the error count (len(errs)).            *)
(***************************************************************************)
\* mutant of ArgsError: a null payload is not an error
ArgsError_NoneAccepted(args) ==
    IF args = PyNone \/ args = PyDict THEN FALSE
    ELSE LET s == strip(args)
         IN  IF s = "" \/ lower(s) \in {"null", "none"} THEN TRUE
             ELSE ~json_loads_ok(s)

\* one raw tool call adds an entry to errs
ArgsError(args) ==
    IF args = PyNone THEN TRUE
    ELSE IF args = PyDict THEN FALSE
    ELSE LET s == strip(args)
         IN  IF s = "" \/ lower(s) \in {"null", "none"} THEN TRUE
             ELSE ~json_loads_ok(s)

RECURSIVE CountArgsErrors(_)
CountArgsErrors(tcs) ==
    IF tcs = <<>> THEN 0
    ELSE (IF ArgsError(Head(tcs).arguments) THEN 1 ELSE 0)
         + CountArgsErrors(Tail(tcs))

RECURSIVE _extract_tool_args_json_errors(_)
_extract_tool_args_json_errors(messages) ==
    IF messages = <<>> THEN 0
    ELSE LET m == Head(messages)
             rest == _extract_tool_args_json_errors(Tail(messages))
         IN  IF m.role # "assistant" THEN rest
             ELSE CountArgsErrors(m.raw_tool_calls) + rest

(***************************************************************************)
(* llm_utils.py: recovery of the arguments of a tool call at run time.     *)
(* A raw payload is None, a dict (given by its JSON rendering) or a string *)
(* (given by its characters).                                              *)
(***************************************************************************)
RawNone == [kind |-> "none", text |-> ""]

RawDict(text) == [kind |-> "dict", text |-> text]

RawStr(s) == [kind |-> "str", text |-> s]

\* the payload as raw_data.message.tool_calls[*].function.arguments holds it
RawToken(raw) ==
    CASE raw.kind = "none" -> PyNone
      [] raw.kind = "dict" -> PyDict
      [] OTHER -> raw.text

EmptyDict == PyVal("dict", "{}")

\* what one call of _safe_parse_tool_arguments does: the value returned, the
\* statement that returned it and whether logger.warning was called; raised
\* is an exception leaving the function
Outcome(value, path, warned) ==
    [raised |-> FALSE, value |-> value, path |-> path, warned |-> warned]

Raised == [raised |-> TRUE, value |-> EmptyDict, path |-> "raised", warned |-> FALSE]

\* return parsed if isinstance(parsed, dict) else {"_args": parsed}
ReturnParsed(parsed, path) ==
    Outcome(IF parsed.type = "dict" THEN parsed
            ELSE PyVal("dict", "{\"_args\": " \o parsed.text \o "}"),
            path, FALSE)

\* 3) the brace-wrap heuristic, then the final warning and {}
FromBraceWrap(s) ==
    LET candidate == "{" \o s \o "}"
    IN  IF ~startswith_brace(s) /\ contains_colon(s) /\ ~json_loads(candidate).raises
        THEN ReturnParsed(json_loads(candidate).value, "wrap")
        ELSE Outcome(EmptyDict, "failed", TRUE)

\* mutant of FromLiteral: the exception of ast.literal_eval is not caught
FromLiteral_Uncaught(s) ==
    IF ~literal_eval(s).raises THEN ReturnParsed(literal_eval(s).value, "literal")
    ELSE Raised

\* 2) the Python-literal fallback; except Exception: pass
FromLiteral(s) ==
    IF ~literal_eval(s).raises THEN ReturnParsed(literal_eval(s).value, "literal")
    ELSE FromBraceWrap(s)

\* mutant of FromJson: the Python literal is tried before strict JSON
FromJson_LiteralFirst(s) ==
    IF ~literal_eval(s).raises THEN ReturnParsed(literal_eval(s).value, "literal")
    ELSE IF ~json_loads(s).raises THEN ReturnParsed(json_loads(s).value, "json")
    ELSE FromBraceWrap(s)

\* 1) strict JSON; except Exception: pass
FromJson(s) ==
    IF ~json_loads(s).raises THEN ReturnParsed(json_loads(s).value, "json")
    ELSE FromLiteral(s)

\* mutant of _safe_parse_tool_arguments: a dict payload is wrapped like any
\* other value that is not a string
_safe_parse_tool_arguments_DictWrapped(raw_arguments) ==
    IF raw_arguments.kind = "none" THEN Outcome(EmptyDict, "none", FALSE)
    ELSE IF raw_arguments.kind = "dict"
         THEN ReturnParsed(PyVal("object", raw_arguments.text), "dict")
    ELSE LET s == strip(raw_arguments.text)
         IN  IF s = "" \/ lower(s) \in {"null", "none"}
             THEN Outcome(EmptyDict, "empty", TRUE)
             ELSE FromJson(s)

_safe_parse_tool_arguments(raw_arguments) ==
    IF raw_arguments.kind = "none" THEN Outcome(EmptyDict, "none", FALSE)
    ELSE IF raw_arguments.kind = "dict"
         THEN Outcome(PyVal("dict", raw_arguments.text), "dict", FALSE)
    ELSE LET s == strip(raw_arguments.text)
         IN  IF s = "" \/ lower(s) \in {"null", "none"}
             THEN Outcome(EmptyDict, "empty", TRUE)
             ELSE FromJson(s)

(***************************************************************************)
(* llm_utils.py: _parse_text_tool_call.  A text is a sequence of tokens:   *)
(* the markers "[TOOL_CALLS" and "[ARGS", the braces "{" and "}", and      *)
(* chunks that contain neither a marker nor a brace; str.find and the      *)
(* brace scan then work token by token.                                    *)
(***************************************************************************)
\* the characters of a token sequence
RECURSIVE Join(_)
Join(tokens) == IF tokens = <<>> THEN "" ELSE Head(tokens) \o Join(Tail(tokens))

\* content.find(tok, from): the first index >= from holding tok, 0 if none
find(tokens, tok, from) ==
    LET hits == {i \in from..Len(tokens) : tokens[i] = tok}
    IN  IF hits = {} THEN 0 ELSE CHOOSE i \in hits : \A j \in hits : i <= j

\* the brace scan: the index of the "}" that closes the "{" at json_start, 0
\* if the text ends first
RECURSIVE ScanBraces(_, _, _)
ScanBraces(tokens, i, depth) ==
    IF i > Len(tokens) THEN 0
    ELSE IF tokens[i] = "{" THEN ScanBraces(tokens, i + 1, depth + 1)
    ELSE IF tokens[i] = "}"
         THEN (IF depth - 1 = 0 THEN i ELSE ScanBraces(tokens, i + 1, depth - 1))
    ELSE ScanBraces(tokens, i + 1, depth)

NoTextCall == [found |-> FALSE, tool_name |-> "", args |-> EmptyDict, path |-> "text_none"]

TextCall(tool_name, args, path) ==
    [found |-> TRUE, tool_name |-> tool_name, args |-> args, path |-> path]

_parse_text_tool_call(content) ==
    LET marker == find(content, "[TOOL_CALLS", 1)
        start == marker + 1
        args_idx == find(content, "[ARGS", start)
        tool_name == strip(Join(SubSeq(content, start, args_idx - 1)))
        json_start == find(content, "{", args_idx)
        end == ScanBraces(content, json_start, 0)
        json_str == Join(SubSeq(content, json_start, end))
    IN  IF marker = 0 THEN NoTextCall
        ELSE IF args_idx = 0 THEN NoTextCall
        ELSE IF tool_name = "" THEN NoTextCall
        ELSE IF json_start = 0 THEN TextCall(tool_name, EmptyDict, "text_nobrace")
        ELSE IF end = 0 THEN TextCall(tool_name, EmptyDict, "text_unclosed")
        ELSE IF json_loads(json_str).raises
             THEN TextCall(tool_name, EmptyDict, "text_failed")
        ELSE TextCall(tool_name, json_loads(json_str).value, "text_json")

(***************************************************************************)
(* _make_fail_reason: the taxonomy tag (first element of the tuple).       *)
(***************************************************************************)
\* mutant of _make_fail_reason: missing tools tested before argument errors
_make_fail_reason_MissingFirst(pass_flag, termination0, missing_tools, failed_env_assertions, tool_args_err_cnt) ==
    LET termination == IF termination0 = "" THEN "n/a" ELSE termination0
    IN  IF pass_flag = 1 THEN "-"
        ELSE IF missing_tools # <<>>
             THEN "Tool misuse / Missing required actions"
        ELSE IF tool_args_err_cnt > 0 THEN "Tool misuse / Schema mismatch"
        ELSE IF failed_env_assertions # <<>>
             THEN "Reasoning/Planning / Env assertion failed"
        ELSE IF "too_many_errors" \in Occurring(termination)
             THEN "Infra/API / Too many errors"
        ELSE IF "max_steps" \in Occurring(termination)
                \/ "max_turns" \in Occurring(termination)
             THEN "Loop/timeout / Max steps"
        ELSE "Unknown"

_make_fail_reason(pass_flag, termination0, missing_tools, failed_env_assertions, tool_args_err_cnt) ==
    LET termination == IF termination0 = "" THEN "n/a" ELSE termination0
    IN  IF pass_flag = 1 THEN "-"
        ELSE IF tool_args_err_cnt > 0 THEN "Tool misuse / Schema mismatch"
        ELSE IF missing_tools # <<>>
             THEN "Tool misuse / Missing required actions"
        ELSE IF failed_env_assertions # <<>>
             THEN "Reasoning/Planning / Env assertion failed"
        ELSE IF "too_many_errors" \in Occurring(termination)
             THEN "Infra/API / Too many errors"
        ELSE IF "max_steps" \in Occurring(termination)
                \/ "max_turns" \in Occurring(termination)
             THEN "Loop/timeout / Max steps"
        ELSE "Unknown"

(***************************************************************************)
(* generate_report: one simulation record of a result file becomes one     *)
(* entry of `runs` and one of `all_logs`.                                  *)
(***************************************************************************)
\* mutant of RewardOf: a record without reward is scored 1.0
RewardOf_DefaultOne(sim) ==
    IF sim.reward.present THEN float(sim.reward)
    ELSE IF sim.info_reward.present THEN float(sim.info_reward)
    ELSE Rat(1, 1)

\* reward = sim["reward"], else reward_info["reward"], else 0.0
RewardOf(sim) ==
    IF sim.reward.present THEN float(sim.reward)
    ELSE IF sim.info_reward.present THEN float(sim.info_reward)
    ELSE Rat(0, 1)

\* mutant of is_pass: the lower bound alone (abs() forgotten)
is_pass_OneSided(reward) ==
    IF (reward.den - reward.num) * 1000000 <= reward.den THEN 1 ELSE 0

\* is_pass = 1 if abs(float(reward) - 1.0) <= 1e-6 else 0
is_pass(reward) ==
    IF Abs(reward.num - reward.den) * 1000000 <= reward.den THEN 1 ELSE 0

\* json.dumps(tool_calls, ensure_ascii=False): the calls as a JSON array
RECURSIVE DumpCalls(_)
DumpCalls(tcs) ==
    IF tcs = <<>> THEN ""
    ELSE "{\"name\": \"" \o Head(tcs).name \o "\", \"arguments\": "
         \o Head(tcs).arguments \o "}"
         \o (IF Len(tcs) > 1 THEN ", " ELSE "") \o DumpCalls(Tail(tcs))

json_dumps(tcs) == "[" \o DumpCalls(tcs) \o "]"

\* if content: the text of a message is neither None nor ""
Truthy(content) == content \notin {"", PyNone}

\* mutant of AgentFinalStep: the tool calls are rendered before the text is looked at
AgentFinalStep_CallsFirst(final, msg) ==
    IF msg.role # "assistant" THEN final
    ELSE IF msg.tool_calls # <<>> THEN json_dumps(msg.tool_calls)
    ELSE IF Truthy(msg.content) THEN msg.content
    ELSE final

\* mutant of AgentFinalStep: the first text found is kept
AgentFinalStep_FirstKept(final, msg) ==
    IF msg.role # "assistant" THEN final
    ELSE IF Truthy(msg.content) THEN (IF final = "" THEN msg.content ELSE final)
    ELSE IF msg.tool_calls # <<>> THEN json_dumps(msg.tool_calls)
    ELSE final

\* one pass of the message loop over agent_final
AgentFinalStep(final, msg) ==
    IF msg.role # "assistant" THEN final
    ELSE IF Truthy(msg.content) THEN msg.content
    ELSE IF msg.tool_calls # <<>> THEN json_dumps(msg.tool_calls)
    ELSE final

\* agent_final after the loop over messages, from agent_final = ""
RECURSIVE agent_final(_)
agent_final(messages) ==
    IF messages = <<>> THEN ""
    ELSE AgentFinalStep(agent_final(SubSeq(messages, 1, Len(messages) - 1)),
                        messages[Len(messages)])

\* the names of every tool call of every message, in order (tool_names)
RECURSIVE NamesOfCalls(_)
NamesOfCalls(tcs) ==
    IF tcs = <<>> THEN <<>>
    ELSE (IF Head(tcs).name # "" THEN <<Head(tcs).name>> ELSE <<>>)
         \o NamesOfCalls(Tail(tcs))

RECURSIVE ToolNamesOf(_)
ToolNamesOf(messages) ==
    IF messages = <<>> THEN <<>>
    ELSE NamesOfCalls(Head(messages).tool_calls) \o ToolNamesOf(Tail(messages))

\* required_tools: the names of the task's ground-truth actions
RequiredOf(meta) ==
    IF meta.present THEN SelectSeq(meta.actions, LAMBDA a : a # "") ELSE <<>>

\* mutant of RunRow: an early termination forces the pass flag to 0
RunRow_EarlyTerminationFails(display_name, domain, sim, meta) ==
    LET reward == RewardOf(sim)
        required_tools == RequiredOf(meta)
        called_tools == sorted(SetOf(ToolNamesOf(sim.messages)))
        missing_tools == sorted(SetOf(required_tools) \ SetOf(called_tools))
    IN  [ModelLabel |-> display_name,
         Domain |-> domain,
         TaskID |-> sim.task_id,
         Trial |-> sim.trial,
         Pass |-> IF sim.termination_reason \in {"agent_stop", "user_stop"}
                  THEN is_pass(reward) ELSE 0,
         Reward |-> reward,
         Termination |-> sim.termination_reason,
         AgentFinalRaw |-> agent_final(sim.messages),
         RequiredTools |-> sorted(SetOf(required_tools)),
         CalledTools |-> called_tools,
         MissingTools |-> missing_tools,
         FailedEnvAssertions |-> _extract_failed_env_assertions(sim.env_assertions),
         ActionMismatches |-> _extract_action_mismatches(sim.action_checks),
         ToolArgsJSONErrorCount |-> _extract_tool_args_json_errors(sim.messages)]

\* mutant of RunRow: the missing tools are the called ones that are not required
RunRow_MissingReversed(display_name, domain, sim, meta) ==
    LET reward == RewardOf(sim)
        required_tools == RequiredOf(meta)
        called_tools == sorted(SetOf(ToolNamesOf(sim.messages)))
        missing_tools == sorted(SetOf(called_tools) \ SetOf(required_tools))
    IN  [ModelLabel |-> display_name,
         Domain |-> domain,
         TaskID |-> sim.task_id,
         Trial |-> sim.trial,
         Pass |-> is_pass(reward),
         Reward |-> reward,
         Termination |-> sim.termination_reason,
         AgentFinalRaw |-> agent_final(sim.messages),
         RequiredTools |-> sorted(SetOf(required_tools)),
         CalledTools |-> called_tools,
         MissingTools |-> missing_tools,
         FailedEnvAssertions |-> _extract_failed_env_assertions(sim.env_assertions),
         ActionMismatches |-> _extract_action_mismatches(sim.action_checks),
         ToolArgsJSONErrorCount |-> _extract_tool_args_json_errors(sim.messages)]

RunRow(display_name, domain, sim, meta) ==
    LET reward == RewardOf(sim)
        required_tools == RequiredOf(meta)
        called_tools == sorted(SetOf(ToolNamesOf(sim.messages)))
        missing_tools == sorted(SetOf(required_tools) \ SetOf(called_tools))
    IN  [ModelLabel |-> display_name,
         Domain |-> domain,
         TaskID |-> sim.task_id,
         Trial |-> sim.trial,
         Pass |-> is_pass(reward),
         Reward |-> reward,
         Termination |-> sim.termination_reason,
         AgentFinalRaw |-> agent_final(sim.messages),
         RequiredTools |-> sorted(SetOf(required_tools)),
         CalledTools |-> called_tools,
         MissingTools |-> missing_tools,
         FailedEnvAssertions |-> _extract_failed_env_assertions(sim.env_assertions),
         ActionMismatches |-> _extract_action_mismatches(sim.action_checks),
         ToolArgsJSONErrorCount |-> _extract_tool_args_json_errors(sim.messages)]

LogRow(display_name, domain, sim) ==
    LET reward == RewardOf(sim)
    IN  [Model |-> display_name,
         Domain |-> domain,
         TaskID |-> sim.task_id,
         Trial |-> sim.trial,
         Pass |-> is_pass(reward),
         Reward |-> reward,
         Termination |-> sim.termination_reason]

(***************************************************************************)
(* create_runs_sheet: one data row of the sheet "런" per run.              *)
(***************************************************************************)
RunSheetRow(run) ==
    [Model |-> run.ModelLabel,
     Domain |-> run.Domain,
     TaskID |-> run.TaskID,
     Trial |-> run.Trial,
     Termination |-> run.Termination,
     Early |-> IF run.Termination \notin {"agent_stop", "user_stop"}
               THEN "Y" ELSE "N",
     Reward |-> run.Reward,
     PASS |-> IF run.Pass = 1 THEN "PASS" ELSE "FAIL",
     MissingTools |-> run.MissingTools,
     FailedEnvAssertions |-> run.FailedEnvAssertions,
     ActionMismatches |-> run.ActionMismatches,
     FailTag |-> _make_fail_reason(run.Pass, run.Termination, run.MissingTools,
                                   run.FailedEnvAssertions,
                                   run.ToolArgsJSONErrorCount),
     ToolArgsJSONErrorCount |-> run.ToolArgsJSONErrorCount]

create_runs_sheet(rs) == [i \in DOMAIN rs |-> RunSheetRow(rs[i])]

(***************************************************************************)
(* Spreadsheet values and the worksheet functions the formulas use.        *)
(***************************************************************************)
XlNum(n, d) == [kind |-> "num", num |-> n, den |-> d]

XlBlank == [kind |-> "blank", num |-> 0, den |-> 1]    \* the text ""

XlError == [kind |-> "error", num |-> 0, den |-> 1]    \* #NUM!, #DIV/0!

RECURSIVE Factorial(_)
Factorial(n) == IF n <= 1 THEN 1 ELSE n * Factorial(n - 1)

\* COMBIN(number, number_chosen): #NUM! when number < number_chosen
COMBIN(n, k) ==
    IF n < 0 \/ k < 0 \/ n < k THEN XlError
    ELSE XlNum(Factorial(n) \div (Factorial(k) * Factorial(n - k)), 1)

\* a / b
XlDiv(a, b) ==
    IF a.kind = "error" \/ b.kind = "error" THEN XlError
    ELSE IF b.num = 0 THEN XlError
    ELSE XlNum(a.num * b.den, a.den * b.num)

IFERROR(v, alt) == IF v.kind = "error" THEN alt ELSE v

\* mutant of CountTrials: rows with the same trial index counted once
CountTrials_DistinctTrials(sheet, model, domain, task_id) ==
    Cardinality({sheet[i].Trial : i \in {j \in DOMAIN sheet :
        /\ sheet[j].Model = model
        /\ sheet[j].Domain = domain
        /\ sheet[j].TaskID = task_id}})

\* COUNTIFS(런!$B:$B,model, 런!$C:$C,domain, 런!$D:$D,task_id)
CountTrials(sheet, model, domain, task_id) ==
    Cardinality({i \in DOMAIN sheet :
        /\ sheet[i].Model = model
        /\ sheet[i].Domain = domain
        /\ sheet[i].TaskID = task_id})

\* mutant of CountPass: the TaskID criterion left out
CountPass_AnyTask(sheet, model, domain, task_id) ==
    Cardinality({i \in DOMAIN sheet :
        /\ sheet[i].Model = model
        /\ sheet[i].Domain = domain
        /\ sheet[i].PASS = "PASS"})

\* COUNTIFS(..., 런!$I:$I,"PASS")
CountPass(sheet, model, domain, task_id) ==
    Cardinality({i \in DOMAIN sheet :
        /\ sheet[i].Model = model
        /\ sheet[i].Domain = domain
        /\ sheet[i].TaskID = task_id
        /\ sheet[i].PASS = "PASS"})

\* mutant of Pass1Cell: the failure rate (E-F)/E
Pass1Cell_FailRate(E, F) ==
    IF E < 1 THEN XlBlank ELSE IFERROR(XlDiv(XlNum(E - F, 1), XlNum(E, 1)), XlBlank)

\* =IF(E<1,"",IFERROR(F/E,""))
Pass1Cell(E, F) ==
    IF E < 1 THEN XlBlank ELSE IFERROR(XlDiv(XlNum(F, 1), XlNum(E, 1)), XlBlank)

\* mutant of Pass2Cell: a short sample shown as 0
Pass2Cell_ZeroWhenShort(E, F) ==
    IF E < 2 THEN XlNum(0, 1)
    ELSE IFERROR(XlDiv(COMBIN(F, 2), COMBIN(E, 2)), XlBlank)

\* mutant of Pass2Cell: the quotient inverted
Pass2Cell_Inverted(E, F) ==
    IF E < 2 THEN XlBlank ELSE IFERROR(XlDiv(COMBIN(E, 2), COMBIN(F, 2)), XlBlank)

\* =IF(E<2,"",IFERROR(COMBIN(F,2)/COMBIN(E,2),""))
Pass2Cell(E, F) ==
    IF E < 2 THEN XlBlank ELSE IFERROR(XlDiv(COMBIN(F, 2), COMBIN(E, 2)), XlBlank)

\* mutant of Pass4Cell: the Pass@1 quotient in the Pass@4 cell
Pass4Cell_CopyOfPass1(E, F) ==
    IF E < 4 THEN XlBlank ELSE IFERROR(XlDiv(XlNum(F, 1), XlNum(E, 1)), XlBlank)

\* mutant of Pass4Cell: the Pass@2 quotient copied into the Pass@4 cell
Pass4Cell_CopyOfPass2(E, F) ==
    IF E < 4 THEN XlBlank ELSE IFERROR(XlDiv(COMBIN(F, 2), COMBIN(E, 2)), XlBlank)

\* =IF(E<4,"",IFERROR(COMBIN(F,4)/COMBIN(E,4),""))
Pass4Cell(E, F) ==
    IF E < 4 THEN XlBlank ELSE IFERROR(XlDiv(COMBIN(F, 4), COMBIN(E, 4)), XlBlank)

(***************************************************************************)
(* create_task_summary_sheet: one row per (Model, Domain, TaskID) of       *)
(* all_logs, in sorted order, with the formula cells evaluated against the *)
(* sheet "런".                                                             *)
(***************************************************************************)
ModelOrder == <<"A", "B">>

DomainOrder == <<"airline", "retail", "telecom">>

TaskOrder == <<"1", "2">>

IndexIn(seq, x) == CHOOSE i \in DOMAIN seq : seq[i] = x

\* tuple comparison of sorted(task_groups.items())
KeyLess(a, b) ==
    LET am == IndexIn(ModelOrder, a[1])
        bm == IndexIn(ModelOrder, b[1])
        ad == IndexIn(DomainOrder, a[2])
        bd == IndexIn(DomainOrder, b[2])
        at == IndexIn(TaskOrder, a[3])
        bt == IndexIn(TaskOrder, b[3])
    IN  \/ am < bm
        \/ am = bm /\ ad < bd
        \/ am = bm /\ ad = bd /\ at < bt

RECURSIVE SortedKeys(_)
SortedKeys(S) ==
    IF S = {} THEN <<>>
    ELSE LET least == CHOOSE k \in S : \A o \in S \ {k} : KeyLess(k, o)
         IN  <<least>> \o SortedKeys(S \ {least})

\* the keys of task_groups
task_groups(logs) ==
    {<<logs[i].Model, logs[i].Domain, logs[i].TaskID>> : i \in DOMAIN logs}

TaskSheetRow(key, sheet) ==
    LET E == CountTrials(sheet, key[1], key[2], key[3])
        F == CountPass(sheet, key[1], key[2], key[3])
    IN  [Model |-> key[1], Domain |-> key[2], TaskID |-> key[3],
         n |-> E, c |-> F,
         pass1 |-> Pass1Cell(E, F),
         pass2 |-> Pass2Cell(E, F),
         pass4 |-> Pass4Cell(E, F)]

create_task_summary_sheet(logs, sheet) ==
    LET keys == SortedKeys(task_groups(logs))
    IN  [i \in DOMAIN keys |-> TaskSheetRow(keys[i], sheet)]

(***************************************************************************)
(* create_summary_sheet: the ranking table and the model x domain matrix   *)
(* of the sheet "요약", formula cells evaluated against "Task별_집계".     *)
(* The arithmetic of the cells is exact.                                   *)
(***************************************************************************)
\* the domains of generate_report, in the order of the matrix rows
domains == <<"retail", "airline", "telecom">>

RECURSIVE GCD(_, _)
GCD(a, b) == IF b = 0 THEN a ELSE GCD(b, a % b)

\* a number cell in lowest terms
XlReduced(n, d) == LET g == GCD(Abs(n), Abs(d)) IN XlNum(n \div g, d \div g)

\* the sum of the number cells of a range (text and blank cells are skipped)
RECURSIVE XlSum(_)
XlSum(cells) ==
    IF cells = <<>> THEN XlNum(0, 1)
    ELSE LET rest == XlSum(Tail(cells))
             v == Head(cells)
         IN  IF v.kind # "num" THEN rest
             ELSE XlReduced(v.num * rest.den + rest.num * v.den, v.den * rest.den)

\* AVERAGE(range): #DIV/0! when the range holds no number
AVERAGE(cells) ==
    LET numbers == SelectSeq(cells, LAMBDA v : v.kind = "num")
        total == XlSum(numbers)
    IN  IF numbers = <<>> THEN XlError
        ELSE XlReduced(total.num, total.den * Len(numbers))

\* the Pass@k column (G, H, I) of a row of "Task별_집계"
PassColumn(row, k) ==
    CASE k = 1 -> row.pass1
      [] k = 2 -> row.pass2
      [] k = 4 -> row.pass4

\* AVERAGEIF(Task별_집계!A:A, model, Task별_집계!<column of k>)
AVERAGEIF(sheet, model, k) ==
    LET rows == SelectSeq(sheet, LAMBDA row : row.Model = model)
    IN  AVERAGE([i \in DOMAIN rows |-> PassColumn(rows[i], k)])

\* AVERAGEIFS(Task별_집계!<column of k>, Task별_집계!A:A, model, Task별_집계!B:B, d)
AVERAGEIFS(sheet, k, model, d) ==
    LET rows == SelectSeq(sheet, LAMBDA row : row.Model = model /\ row.Domain = d)
    IN  AVERAGE([i \in DOMAIN rows |-> PassColumn(rows[i], k)])

\* N(cell): the number of a number cell, 0 for text
N(v) == IF v.kind = "num" THEN v ELSE XlNum(0, 1)

\* mutant of RankKey: the term ROW()/1000000000 left out
RankKey_NoRow(C, D, E, row) == [c |-> N(C), d |-> N(D), e |-> N(E), row |-> 0]

\* the cell F of a ranking row: N(C)*1000000 + N(D)*1000 + N(E) + ROW()/1000000000,
\* kept as its four terms; row is the position among the data rows
RankKey(C, D, E, row) == [c |-> N(C), d |-> N(D), e |-> N(E), row |-> row]

LCM(a, b) == (a \div GCD(a, b)) * b

\* x - y of two number cells, in lowest terms
XlDiff(x, y) == XlReduced(x.num * y.den - y.num * x.den, x.den * y.den)

\* den * ((C - C') * 1000000 + (D - D') * 1000 + (E - E')), where den is the
\* common denominator of the three differences: an integer with the sign of
\* the gap between two keys, ROW() apart
KeyGap(a, b) ==
    LET dc == XlDiff(a.c, b.c)
        dd == XlDiff(a.d, b.d)
        de == XlDiff(a.e, b.e)
        den == LCM(LCM(dc.den, dd.den), de.den)
    IN  dc.num * (den \div dc.den) * 1000000
        + dd.num * (den \div dd.den) * 1000
        + de.num * (den \div de.den)

\* F > F': a gap that is not 0 is at least 1/den and exceeds every difference
\* of ROW()/1000000000, which decides only when the gap is 0
KeyGreater(a, b) ==
    \/ KeyGap(a, b) > 0
    \/ KeyGap(a, b) = 0 /\ a.row > b.row

\* =IF(F="","",1+SUMPRODUCT(--($F$first:$F$last>F))); F is always a number
RankOf(keys, r) == 1 + Cardinality({q \in DOMAIN keys : KeyGreater(keys[q], keys[r])})

\* the rank column A of the ranking table, given the cells C, D, E of its rows
RankColumn(rows) ==
    LET keys == [r \in DOMAIN rows |-> RankKey(rows[r].pass1, rows[r].pass2, rows[r].pass4, r)]
    IN  [r \in DOMAIN rows |-> RankOf(keys, r)]

\* the cells B..E of the ranking rows, one row per model of models_mapping
RankingRows(models, sheet) ==
    [r \in DOMAIN models |->
        [Model |-> models[r],
         pass1 |-> IFERROR(AVERAGEIF(sheet, models[r], 1), XlBlank),
         pass2 |-> IFERROR(AVERAGEIF(sheet, models[r], 2), XlBlank),
         pass4 |-> IFERROR(AVERAGEIF(sheet, models[r], 4), XlBlank)]]

\* the cells of one model in a matrix row
MatrixCells(sheet, model, d) ==
    [pass1 |-> IFERROR(AVERAGEIFS(sheet, 1, model, d), XlBlank),
     pass2 |-> IFERROR(AVERAGEIFS(sheet, 2, model, d), XlBlank),
     pass4 |-> IFERROR(AVERAGEIFS(sheet, 4, model, d), XlBlank)]

\* the cells of one model in the row "Overall": AVERAGE over the domain rows
OverallCells(column) ==
    [pass1 |-> IFERROR(AVERAGE([i \in DOMAIN column |-> column[i].pass1]), XlBlank),
     pass2 |-> IFERROR(AVERAGE([i \in DOMAIN column |-> column[i].pass2]), XlBlank),
     pass4 |-> IFERROR(AVERAGE([i \in DOMAIN column |-> column[i].pass4]), XlBlank)]

create_summary_sheet(models, sheet) ==
    LET rows == RankingRows(models, sheet)
        matrix == [m \in DOMAIN models |->
                      [i \in DOMAIN domains |-> MatrixCells(sheet, models[m], domains[i])]]
    IN  [ranking |-> rows,
         rank |-> RankColumn(rows),
         matrix |-> matrix,
         overall |-> [m \in DOMAIN models |-> OverallCells(matrix[m])]]

(***************************************************************************)
(* The state machine of generate_report.                                   *)
(***************************************************************************)
TaskKeys == {<<d, t>> : d \in {"retail", "airline"}, t \in {"1", "2"}}

\* the labels of models_mapping, in its order; no trial of "C" is on file
models_mapping == <<"A", "B", "C">>

\* the summary sheet before the workbook is built
NoSummary == [ranking |-> <<>>, rank |-> <<>>, matrix |-> <<>>, overall |-> <<>>]

NoMeta == [present |-> FALSE, actions |-> <<>>]

Init ==
    /\ task_meta = [k \in TaskKeys |-> NoMeta]
    /\ runs = <<>>
    /\ all_logs = <<>>
    /\ ws_run = <<>>
    /\ ws_task = <<>>
    /\ ws_summary = NoSummary
    /\ pc = "ingest"
    /\ sims = <<>>
    /\ transcript = <<>>
    /\ calls = <<>>

\* an entry of the task's action list that is not a mapping
NonDictAction == "<non-dict>"

\* for t in data["tasks"]: task_meta[(domain, tid)] = {...}; the list
\* comprehension req_tools calls a.get on every entry of the action list
LoadTask(domain, tid, actions) ==
    /\ pc = "ingest"
    /\ IF \E i \in DOMAIN actions : actions[i] = NonDictAction
       THEN /\ pc' = "crashed"
            /\ UNCHANGED task_meta
       ELSE /\ task_meta' = [task_meta EXCEPT
                        ![<<domain, tid>>] = [present |-> TRUE, actions |-> actions]]
            /\ UNCHANGED pc
    /\ UNCHANGED <<runs, all_logs, ws_run, ws_task, ws_summary, sims, transcript, calls>>

\* float(reward) raises: the reward found is not a number
RaisesAtReward(sim) ==
    LET reward == IF sim.reward.present THEN sim.reward ELSE sim.info_reward
    IN  reward.present /\ reward.den = 0

\* len(content) raises: a tool message whose content is null
RaisesAtMessages(sim) ==
    \E i \in DOMAIN sim.messages :
        sim.messages[i].role = "tool" /\ sim.messages[i].content = PyNone

\* a.get("action_match") raises: a truthy entry of action_checks that is not
\* a mapping
RaisesAtMismatches(sim) ==
    \E i \in DOMAIN sim.action_checks :
        ~sim.action_checks[i].is_dict /\ sim.action_checks[i].truthy

\* for sim in data["simulations"]: all_logs.append(...); runs.append(...)
IngestSim(display_name, domain, sim) ==
    /\ pc = "ingest"
    /\ sims' = Append(sims, sim)
    /\ IF RaisesAtReward(sim)
       THEN /\ pc' = "crashed"
            /\ UNCHANGED <<all_logs, runs>>
       ELSE IF RaisesAtMessages(sim) \/ RaisesAtMismatches(sim)
       THEN /\ pc' = "crashed"
            /\ all_logs' = Append(all_logs, LogRow(display_name, domain, sim))
            /\ UNCHANGED runs
       ELSE /\ all_logs' = Append(all_logs, LogRow(display_name, domain, sim))
            /\ runs' = Append(runs, RunRow(display_name, domain, sim,
                                           task_meta[<<domain, sim.task_id>>]))
            /\ UNCHANGED pc
    /\ UNCHANGED <<task_meta, ws_run, ws_task, ws_summary, transcript, calls>>

\* the workbook is built from runs and all_logs and saved
WriteWorkbook ==
    /\ pc = "ingest"
    /\ ws_run' = create_runs_sheet(runs)
    /\ ws_task' = create_task_summary_sheet(all_logs, create_runs_sheet(runs))
    /\ ws_summary' = create_summary_sheet(models_mapping,
            create_task_summary_sheet(all_logs, create_runs_sheet(runs)))
    /\ pc' = "saved"
    /\ UNCHANGED <<task_meta, runs, all_logs, sims, transcript, calls>>

(***************************************************************************)
(* Trial records the specifications draw from.                             *)
(***************************************************************************)
Msg(role, content, tcs, raw) ==
    [role |-> role, content |-> content, tool_calls |-> tcs, raw_tool_calls |-> raw]

UserMsg == Msg("user", "hello", <<>>, <<>>)

\* an assistant message with one tool call whose raw payload is rawargs
CallMsg(name, rawargs) ==
    Msg("assistant", "",
        <<[name |-> name, arguments |-> PyDict]>>,
        <<[name |-> name, arguments |-> rawargs]>>)

Transcripts ==
    {<<UserMsg>>,
     <<UserMsg, CallMsg("get_order", "{\"id\": 1}")>>,
     <<UserMsg, CallMsg("get_order", "")>>,
     <<UserMsg, CallMsg("get_order", "{\"id\": 1}"), CallMsg("refund", "{'id': 1}")>>,
     <<UserMsg, CallMsg("get_order", PyNone), CallMsg("cancel_order", "oops")>>,
     <<UserMsg, CallMsg("get_order", PyDict), CallMsg("refund", "[1]")>>,
     <<Msg("user", "hello", <<[name |-> "refund", arguments |-> PyDict]>>, <<>>),
       CallMsg("get_order", "{\"id\": 1}"), CallMsg("get_order", "{\"id\": 1}")>>}

GroundTruths ==
    {<<>>, <<"get_order">>, <<"get_order", "refund">>, <<"refund", "", "refund">>}

EnvItem(met) ==
    [is_dict |-> TRUE, met |-> met, env_is_dict |-> TRUE, func_name |-> "assert_order"]

EnvAssertionLists ==
    {<<>>, <<EnvItem("True")>>, <<EnvItem("False")>>,
     <<EnvItem("None"), EnvItem("False")>>,
     <<EnvItem("False"), EnvItem("True"), [EnvItem("False") EXCEPT !.func_name = ""]>>}

ActionItem(match) == [is_dict |-> TRUE, action_match |-> match, name |-> "refund"]

ActionCheckLists == {<<>>, <<ActionItem("True")>>, <<ActionItem("False")>>}

\* rewards: decimals well away from the tolerance, and the dyadic
\* neighbours 1 +- 2^-20 (inside 1e-6) and 1 +- 2^-19 (outside)
Rewards ==
    {SomeNum(0, 1000), SomeNum(500, 1000), SomeNum(999, 1000),
     SomeNum(1000, 1000), SomeNum(1001, 1000), SomeNum(2000, 1000),
     SomeNum(1048574, 1048576), SomeNum(1048575, 1048576),
     SomeNum(1048577, 1048576), SomeNum(1048578, 1048576)}

Sim(task_id, trial, reward, info_reward, termination, messages, env, checks) ==
    [task_id |-> task_id, trial |-> trial, reward |-> reward,
     info_reward |-> info_reward, termination_reason |-> termination,
     messages |-> messages, env_assertions |-> env, action_checks |-> checks]

\* reward / reward_info.reward pairs: a present reward, or an absent one
\* with the fallback present or absent
RewardPairs ==
    {<<r, NoneNum>> : r \in Rewards}
    \cup {<<NoneNum, r>> : r \in {NoneNum, SomeNum(1000, 1000), SomeNum(0, 1000)}}

\* single-trial records for the verdict
VerdictSims ==
    {Sim("1", 0, rp[1], rp[2], t, m, e, <<>>) :
        rp \in RewardPairs, t \in Terminations, m \in Transcripts,
        e \in EnvAssertionLists}

\* an entry of a list of reward_info that is not a mapping
NonDictItem(truthy) == [is_dict |-> FALSE, truthy |-> truthy]

NullContentMsg(role) == Msg(role, PyNone, <<>>, <<>>)

\* records with fields that are null or of an unexpected type
MalformedSims ==
    {Sim("1", 0, NotNum, NoneNum, "agent_stop", <<UserMsg>>, <<>>, <<>>),
     Sim("1", 0, NoneNum, NotNum, "agent_stop", <<UserMsg>>, <<>>, <<>>),
     Sim("1", 0, NoneNum, NoneNum, "agent_stop", <<>>, <<>>, <<>>),
     Sim("1", 0, SomeNum(0, 1000), NoneNum, "agent_stop",
         <<NullContentMsg("user"), NullContentMsg("assistant")>>, <<>>, <<>>),
     Sim("1", 0, SomeNum(0, 1000), NoneNum, "agent_stop",
         <<UserMsg, CallMsg("get_order", "{\"id\": 1}"), NullContentMsg("tool")>>,
         <<>>, <<>>),
     Sim("1", 0, SomeNum(0, 1000), NoneNum, "agent_stop", <<UserMsg>>,
         <<NonDictItem(TRUE), EnvItem("False")>>, <<NonDictItem(FALSE)>>),
     Sim("1", 0, SomeNum(0, 1000), NoneNum, "agent_stop", <<UserMsg>>,
         <<>>, <<ActionItem("False"), NonDictItem(TRUE)>>)}

\* records for the aggregation: only key and reward vary
AggSims ==
    {Sim(tid, 0, r, NoneNum, "agent_stop", <<UserMsg>>, <<>>, <<>>) :
        tid \in {"1", "2"}, r \in {SomeNum(1000, 1000), SomeNum(0, 1000)}}

(***************************************************************************)
(* Specifications.                                                         *)
(***************************************************************************)
\* aggregation: up to MaxRuns trials of two models on two tasks
Next ==
    \/ \E a \in {<<"get_order">>} : LoadTask("retail", "1", a)
    \/ \E m \in {"A", "B"}, sim \in AggSims :
          Len(runs) < MaxRuns /\ IngestSim(m, "retail", sim)
    \/ WriteWorkbook

Spec == Init /\ [][Next]_vars

\* verdict: the report of one trial, over every shape of record
NextVerdict ==
    \/ \E a \in GroundTruths \cup {<<"get_order", NonDictAction>>} :
          runs = <<>> /\ LoadTask("retail", "1", a)
    \/ \E sim \in VerdictSims \cup MalformedSims :
          runs = <<>> /\ IngestSim("A", "retail", sim)
    \/ WriteWorkbook

SpecVerdict == Init /\ [][NextVerdict]_vars

\* pair: two trials whose records differ in everything but, possibly, the
\* reward
PairSims ==
    {Sim("1", 0, rp[1], rp[2], t, m, e, a) :
        rp \in {<<SomeNum(1000, 1000), NoneNum>>, <<SomeNum(0, 1000), NoneNum>>,
                <<NoneNum, NoneNum>>},
        t \in {"agent_stop", "max_steps"},
        m \in {<<UserMsg, CallMsg("refund", "{\"id\": 1}")>>,
                <<UserMsg, CallMsg("get_order", "")>>},
        e \in {<<>>, <<EnvItem("False")>>},
        a \in {<<>>, <<ActionItem("False")>>}}

NextPair ==
    \/ \E a \in {<<"refund">>} : runs = <<>> /\ LoadTask("retail", "1", a)
    \/ \E sim \in PairSims : Len(runs) < MaxPairRuns /\ IngestSim("A", "retail", sim)
    \/ WriteWorkbook

SpecPair == Init /\ [][NextPair]_vars

(***************************************************************************)
(* The trial at run time: llm_utils.generate turns each response of the    *)
(* model into an assistant message; the messages, raw_data included, are   *)
(* the transcript the report reads.                                        *)
(***************************************************************************)
MaxResponses == 2    \* responses of the model in the recovery specification

NoContent == [is_str |-> FALSE, tokens |-> <<>>]

Text(tokens) == [is_str |-> TRUE, tokens |-> tokens]

Response(content, tool_calls) == [content |-> content, tool_calls |-> tool_calls]

RawCall(name, raw_args) == [name |-> name, arguments |-> raw_args]

\* string payloads of tool_call.function.arguments
RawStrings ==
    {"", "  ", "null", "None", "NULL", "{\"id\": 1}", "{}", "[1]", "\"a:b\"",
     "{\"a\": \"\\/\"}", "{'id': 1}", "{'a': 1}", "True", "id: 1",
     "status: \"ok\"", "\"status\": \"ok\"", "oops", "{\"id\": 1"}

RawPayloads ==
    {RawNone, RawDict("{\"id\": 1}"), RawDict("{}")} \cup {RawStr(s) : s \in RawStrings}

\* texts of response.message.content
Contents ==
    {Text(<<"hi">>),
     Text(<<"[TOOL_CALLS", "get_order", "[ARGS", "{", "\"id\": 1", "}">>),
     Text(<<"[TOOL_CALLS", "get_order", "[ARGS", "{", "id: 1", "}">>),
     Text(<<"[TOOL_CALLS", "get_order", "[ARGS", "{", "\"id\": 1">>),
     Text(<<"[TOOL_CALLS", "get_order", "[ARGS">>),
     Text(<<"[TOOL_CALLS", "refund", "[ARGS", "{", "}">>),
     Text(<<"[TOOL_CALLS", "[ARGS", "{", "}">>),
     Text(<<"[TOOL_CALLS", "get_order">>)}

Responses ==
    {Response(NoContent, <<RawCall("get_order", raw)>>) : raw \in RawPayloads}
    \cup {Response(c, <<>>) : c \in Contents}
    \cup {Response(NoContent, <<RawCall("get_order", RawStr("{'id': 1}")),
                                RawCall("refund", RawStr(""))>>),
          Response(Text(<<"[TOOL_CALLS", "refund", "[ARGS">>),
                   <<RawCall("get_order", RawStr("{\"id\": 1}"))>>)}

\* the reapplication of the recovery to a call's arguments has not been made
NotAgain == [done |-> FALSE, value |-> EmptyDict]

\* an entry of the history: the call, where it came from (a structured tool
\* call with its raw payload, or the text of the content), what the recovery
\* returned and how
CallEntry(tool, source, raw, outcome) ==
    [tool |-> tool, source |-> source, raw |-> raw, value |-> outcome.value,
     path |-> outcome.path, warned |-> outcome.warned, again |-> NotAgain]

InitRecover ==
    /\ task_meta = [k \in TaskKeys |-> NoMeta]
    /\ runs = <<>>
    /\ all_logs = <<>>
    /\ ws_run = <<>>
    /\ ws_task = <<>>
    /\ ws_summary = NoSummary
    /\ pc = "simulate"
    /\ sims = <<>>
    /\ transcript = <<>>
    /\ calls = <<>>

\* generate: the structured tool calls are recovered one by one; without
\* any, a text "[TOOL_CALLS<name>[ARGS{...}" becomes the tool call
generate(response) ==
    LET raw_calls == response.tool_calls
        outcomes == [i \in DOMAIN raw_calls |->
                        _safe_parse_tool_arguments(raw_calls[i].arguments)]
        parsed_tool_calls == [i \in DOMAIN raw_calls |->
                        [name |-> raw_calls[i].name,
                         arguments |-> outcomes[i].value.text]]
        parsed == IF parsed_tool_calls = <<>> /\ response.content.is_str
                  THEN _parse_text_tool_call(response.content.tokens)
                  ELSE NoTextCall
        tool_calls == IF parsed.found
                      THEN <<[name |-> parsed.tool_name, arguments |-> parsed.args.text]>>
                      ELSE parsed_tool_calls
        content == IF parsed.found \/ ~response.content.is_str THEN PyNone
                   ELSE Join(response.content.tokens)
        raw_data == [i \in DOMAIN raw_calls |->
                        [name |-> raw_calls[i].name,
                         arguments |-> RawToken(raw_calls[i].arguments)]]
        handled == [i \in DOMAIN raw_calls |->
                        CallEntry(raw_calls[i].name, "structured",
                                  raw_calls[i].arguments, outcomes[i])]
        handled_text == IF parsed.found
                        THEN <<CallEntry(parsed.tool_name, "text",
                                         RawStr(Join(response.content.tokens)),
                                         Outcome(parsed.args, parsed.path, FALSE))>>
                        ELSE <<>>
    IN  /\ pc = "simulate"
        /\ Len(transcript) < MaxResponses
        /\ IF \E i \in DOMAIN outcomes : outcomes[i].raised
           THEN /\ pc' = "crashed"
                /\ UNCHANGED <<transcript, calls>>
           ELSE /\ transcript' = Append(transcript,
                                        Msg("assistant", content, tool_calls, raw_data))
                /\ calls' = calls \o handled \o handled_text
                /\ UNCHANGED pc
        /\ UNCHANGED <<task_meta, runs, all_logs, ws_run, ws_task, ws_summary, sims>>

\* the recovery applied once more to the arguments of the latest call
RecoverAgain ==
    /\ pc = "simulate"
    /\ calls # <<>>
    /\ ~calls[Len(calls)].again.done
    /\ LET again == _safe_parse_tool_arguments(RawDict(calls[Len(calls)].value.text))
       IN  IF again.raised
           THEN /\ pc' = "crashed"
                /\ UNCHANGED calls
           ELSE /\ calls' = [calls EXCEPT ![Len(calls)].again =
                                [done |-> TRUE, value |-> again.value]]
                /\ UNCHANGED pc
    /\ UNCHANGED <<task_meta, runs, all_logs, ws_run, ws_task, ws_summary, sims, transcript>>

\* the trial ends and its messages are written to the result file
SaveSimulation ==
    /\ pc = "simulate"
    /\ pc' = "ingest"
    /\ UNCHANGED <<task_meta, runs, all_logs, ws_run, ws_task, ws_summary, sims, transcript, calls>>

\* the record of the trial in the result file
RecoveredSims ==
    {Sim("1", 0, r, NoneNum, "agent_stop", <<UserMsg>> \o transcript, <<>>, <<>>) :
        r \in {SomeNum(1000, 1000), SomeNum(0, 1000)}}

\* recovery: one trial is run, saved and reported
NextRecover ==
    \/ \E response \in Responses : generate(response)
    \/ RecoverAgain
    \/ SaveSimulation
    \/ \E sim \in RecoveredSims : runs = <<>> /\ IngestSim("A", "retail", sim)
    \/ WriteWorkbook

SpecRecover == InitRecover /\ [][NextRecover]_vars

(***************************************************************************)
(* Roll-up: trials of model A in two domains of unequal size and of model  *)
(* B in one; model C is listed without trials.                             *)
(***************************************************************************)
MaxRollupRuns == 4   \* trials ingested in the roll-up specification

RollupSim(tid, r) == Sim(tid, 0, r, NoneNum, "agent_stop", <<UserMsg>>, <<>>, <<>>)

\* (model, domain, record) of the trials on file
RollupTrials ==
    {<<"A", k[1], RollupSim(k[2], r)>> :
        k \in {<<"retail", "1">>, <<"retail", "2">>, <<"airline", "1">>},
        r \in {SomeNum(1000, 1000), SomeNum(0, 1000)}}
    \cup {<<"B", "retail", RollupSim("1", r)>> :
        r \in {SomeNum(1000, 1000), SomeNum(0, 1000)}}

NextRollup ==
    \/ \E x \in RollupTrials : Len(runs) < MaxRollupRuns /\ IngestSim(x[1], x[2], x[3])
    \/ WriteWorkbook

SpecRollup == Init /\ [][NextRollup]_vars

(***************************************************************************)
(* One task group: the trials of model A on retail task 1, read from files *)
(* that may repeat a trial index.                                          *)
(***************************************************************************)
MaxGroupRuns == 5   \* trials ingested in the task-group specification

GroupSims ==
    {Sim("1", trial, r, NoneNum, "agent_stop", <<UserMsg>>, <<>>, <<>>) :
        trial \in {0, 1}, r \in {SomeNum(1000, 1000), SomeNum(0, 1000)}}

NextGroup ==
    \/ \E sim \in GroupSims : Len(runs) < MaxGroupRuns /\ IngestSim("A", "retail", sim)
    \/ WriteWorkbook

SpecGroup == Init /\ [][NextGroup]_vars

(***************************************************************************)
(* Transcripts: one trial whose messages are any sequence of up to         *)
(* MaxMessages messages of the kinds the message loop tells apart.         *)
(***************************************************************************)
MaxMessages == 3   \* messages of a trial in the transcript specification

OneCall == <<[name |-> "get_order", arguments |-> PyDict]>>

OneRawCall == <<[name |-> "get_order", arguments |-> "{\"id\": 1}"]>>

MessageKinds ==
    {UserMsg,
     Msg("tool", "done", <<>>, <<>>),
     Msg("assistant", "first", <<>>, <<>>),
     Msg("assistant", "second", OneCall, OneRawCall),
     Msg("assistant", "", OneCall, OneRawCall),
     Msg("assistant", "", <<>>, <<>>),
     NullContentMsg("assistant")}

TranscriptSims ==
    {Sim("1", 0, SomeNum(1000, 1000), NoneNum, "agent_stop", ms, <<>>, <<>>) :
        ms \in UNION {[1..n -> MessageKinds] : n \in 0..MaxMessages}}

NextTranscript ==
    \/ \E sim \in TranscriptSims : runs = <<>> /\ IngestSim("A", "retail", sim)
    \/ WriteWorkbook

SpecTranscript == Init /\ [][NextTranscript]_vars

(***************************************************************************)
(* Files: the result files of one domain read one after the other; a file  *)
(* lists the task with its ground truth, or lists no task, before its      *)
(* trials.                                                                 *)
(***************************************************************************)
MaxFileRuns == 3   \* trials ingested in the files specification

FileSims ==
    {Sim("1", 0, r, NoneNum, "agent_stop", m, <<>>, <<>>) :
        r \in {SomeNum(1000, 1000), SomeNum(0, 1000)},
        m \in {<<UserMsg, CallMsg("refund", "{\"id\": 1}")>>,
                <<UserMsg, CallMsg("get_order", "{\"id\": 1}")>>}}

NextFiles ==
    \/ \E a \in {<<"refund">>} : ~task_meta[<<"retail", "1">>].present /\ LoadTask("retail", "1", a)
    \/ \E m \in {"A", "B"}, sim \in FileSims :
          Len(runs) < MaxFileRuns /\ IngestSim(m, "retail", sim)
    \/ WriteWorkbook

SpecFiles == Init /\ [][NextFiles]_vars

(***************************************************************************)
(* Ranking: the ranking table of a workbook whose cells C, D, E hold the   *)
(* averages of a report, and the evaluation of its cells F and A.          *)
(***************************************************************************)
\* cells C, D, E of a ranking row: Pass@1 is 1/33 or 1/32 (one task passed
\* out of 33 or 32), Pass@2 and Pass@4 are blank or 1 (the passed task has
\* 1, 2 or 4 trials)
ScoreTriples ==
    {[pass1 |-> p, pass2 |-> q[1], pass4 |-> q[2]] :
        p \in {XlNum(1, 33), XlNum(1, 32)},
        q \in {<<XlBlank, XlBlank>>, <<XlNum(1, 1), XlBlank>>, <<XlNum(1, 1), XlNum(1, 1)>>}}

InitRank ==
    /\ task_meta = [k \in TaskKeys |-> NoMeta]
    /\ runs = <<>>
    /\ all_logs = <<>>
    /\ ws_run = <<>>
    /\ ws_task = <<>>
    /\ \E cells \in [DOMAIN models_mapping -> ScoreTriples] :
          ws_summary = [NoSummary EXCEPT !.ranking =
              [r \in DOMAIN models_mapping |->
                  [Model |-> models_mapping[r], pass1 |-> cells[r].pass1,
                   pass2 |-> cells[r].pass2, pass4 |-> cells[r].pass4]]]
    /\ pc = "recalc"
    /\ sims = <<>>
    /\ transcript = <<>>
    /\ calls = <<>>

\* the workbook is opened: the cells F, then the cells A, are evaluated
Recalculate ==
    /\ pc = "recalc"
    /\ ws_summary' = [ws_summary EXCEPT !.rank = RankColumn(ws_summary.ranking)]
    /\ pc' = "saved"
    /\ UNCHANGED <<task_meta, runs, all_logs, ws_run, ws_task, sims, transcript, calls>>

NextRank == Recalculate

SpecRank == InitRank /\ [][NextRank]_vars

(***************************************************************************)
(* Properties.                                                             *)
(***************************************************************************)
Ks == {1, 2, 4}

\* the Pass@k cell of a row of the task sheet
PassAt(row, k) ==
    CASE k = 1 -> row.pass1
      [] k = 2 -> row.pass2
      [] k = 4 -> row.pass4

Defined(v) == v.kind = "num"

\* the binomial coefficient, by Pascal's rule; 0 when k > n
RECURSIVE Binomial(_, _)
Binomial(n, k) ==
    IF k = 0 THEN 1
    ELSE IF n = 0 THEN 0
    ELSE Binomial(n - 1, k - 1) + Binomial(n - 1, k)

\* the k-element samples drawn without replacement from trials 1..n
Samples(n, k) == {S \in SUBSET (1..n) : Cardinality(S) = k}

\* C1: the pass flag of every ingested trial is 1 iff its reward lies within
\* 1e-6 of 1.0 (1 - 1e-6 <= reward <= 1 + 1e-6); reward 1.0 passes and
\* reward 0.999 fails; the sheet shows PASS exactly for pass flag 1.
C1_PassIffRewardWithinTolerance ==
    /\ \A i \in DOMAIN runs :
        LET r == runs[i].Reward
        IN  /\ runs[i].Pass \in {0, 1}
            /\ runs[i].Pass = 1 <=>
                  /\ (r.num - r.den) * 1000000 <= r.den
                  /\ (r.den - r.num) * 1000000 <= r.den
            /\ r.num = r.den => runs[i].Pass = 1
            /\ r.num * 1000 = 999 * r.den => runs[i].Pass = 0
    /\ \A i \in DOMAIN ws_run :
        ws_run[i].PASS = "PASS" <=> runs[i].Pass = 1

\* C1 witness: a trial with reward 1 - 2^-20 (not 1.0, inside the tolerance)
\* is reported PASS
C1_Witness ==
    /\ pc = "saved"
    /\ \E i \in DOMAIN ws_run :
        /\ ws_run[i].Reward = Rat(1048575, 1048576)
        /\ ws_run[i].PASS = "PASS"

\* C2: two trials with the same reward have the same pass flag, whatever
\* their termination reason, tools, failed assertions, action mismatches and
\* tool-argument error count.
C2_PassDependsOnRewardOnly ==
    /\ \A i, j \in DOMAIN runs :
        RatEq(runs[i].Reward, runs[j].Reward) => runs[i].Pass = runs[j].Pass
    /\ \A i, j \in DOMAIN ws_run :
        RatEq(ws_run[i].Reward, ws_run[j].Reward) => ws_run[i].PASS = ws_run[j].PASS

\* C2 witness: two reported trials with equal reward that differ in every
\* other signal
C2_Witness ==
    /\ pc = "saved"
    /\ \E i, j \in DOMAIN ws_run :
        /\ RatEq(ws_run[i].Reward, ws_run[j].Reward)
        /\ ws_run[i].Termination # ws_run[j].Termination
        /\ ws_run[i].MissingTools # ws_run[j].MissingTools
        /\ ws_run[i].FailedEnvAssertions # ws_run[j].FailedEnvAssertions
        /\ ws_run[i].ActionMismatches # ws_run[j].ActionMismatches
        /\ ws_run[i].ToolArgsJSONErrorCount # ws_run[j].ToolArgsJSONErrorCount
        /\ ws_run[i].PASS = "PASS"

\* C3: every row flagged early termination 'Y' (termination reason other
\* than agent_stop / user_stop) is shown FAIL, whatever its reward.
C3_EarlyTerminationAlwaysFails ==
    \A i \in DOMAIN ws_run :
        ws_run[i].Early = "Y" => ws_run[i].PASS = "FAIL"

\* C4: the taxonomy tag of a failing trial is that of the first matching
\* rule (argument errors, missing tools, failed assertions, too_many_errors,
\* max_steps / max_turns, Unknown); a passing trial has the tag "-".
C4_TaxonomyPrecedence ==
    \A i \in DOMAIN ws_run :
        LET row == ws_run[i]
            errs == row.ToolArgsJSONErrorCount > 0
            miss == row.MissingTools # <<>>
            env == row.FailedEnvAssertions # <<>>
            many == row.Termination = "too_many_errors"
            steps == row.Termination \in {"max_steps", "max_turns"}
        IN  /\ row.PASS = "PASS" => row.FailTag = "-"
            /\ row.PASS = "FAIL" =>
                /\ errs => row.FailTag = "Tool misuse / Schema mismatch"
                /\ ~errs /\ miss =>
                      row.FailTag = "Tool misuse / Missing required actions"
                /\ ~errs /\ ~miss /\ env =>
                      row.FailTag = "Reasoning/Planning / Env assertion failed"
                /\ ~errs /\ ~miss /\ ~env /\ many =>
                      row.FailTag = "Infra/API / Too many errors"
                /\ ~errs /\ ~miss /\ ~env /\ ~many /\ steps =>
                      row.FailTag = "Loop/timeout / Max steps"
                /\ ~errs /\ ~miss /\ ~env /\ ~many /\ ~steps =>
                      row.FailTag = "Unknown"

\* C4 witness: a failing trial with an argument error, a missing required
\* tool, a failed assertion and a too_many_errors termination, tagged
\* Schema mismatch
C4_Witness ==
    /\ pc = "saved"
    /\ \E i \in DOMAIN ws_run :
        /\ ws_run[i].PASS = "FAIL"
        /\ ws_run[i].ToolArgsJSONErrorCount > 0
        /\ ws_run[i].MissingTools # <<>>
        /\ ws_run[i].FailedEnvAssertions # <<>>
        /\ ws_run[i].Termination = "too_many_errors"
        /\ ws_run[i].FailTag = "Tool misuse / Schema mismatch"

C6_ZeroWhenFewerThanKSuccesses ==
    \A i \in DOMAIN ws_task : \A k \in Ks :
        ws_task[i].n >= k /\ ws_task[i].c < k =>
            /\ Defined(PassAt(ws_task[i], k))
            /\ PassAt(ws_task[i], k).num = 0

\* C7: a defined Pass@k value equals C(c,k) / C(n,k); for k = 1 it is c / n
\* for every n > 0.
C7_PassAtKIsBinomialRatio ==
    \A i \in DOMAIN ws_task :
        LET row == ws_task[i]
        IN  /\ \A k \in Ks :
                Defined(PassAt(row, k)) =>
                    PassAt(row, k).num * Binomial(row.n, k)
                        = Binomial(row.c, k) * PassAt(row, k).den
            /\ row.n > 0 =>
                /\ Defined(row.pass1)
                /\ row.pass1.num * row.n = row.c * row.pass1.den

\* C7 witness: n = 4, c = 3 gives Pass@2 = 3/6
C7_Witness ==
    /\ pc = "saved"
    /\ \E i \in DOMAIN ws_task :
        /\ ws_task[i].n = 4 /\ ws_task[i].c = 3
        /\ Defined(ws_task[i].pass2)
        /\ RatEq(ws_task[i].pass2, Rat(1, 2))

\* C8: every defined Pass@k value lies in [0, 1].
C8_PassAtKInUnitInterval ==
    \A i \in DOMAIN ws_task : \A k \in Ks :
        LET v == PassAt(ws_task[i], k)
        IN  Defined(v) => /\ v.den > 0
                          /\ 0 <= v.num
                          /\ v.num <= v.den

\* C8 witness: a value strictly between 0 and 1 (n = 3, c = 2, k = 2)
C8_Witness ==
    /\ pc = "saved"
    /\ \E i \in DOMAIN ws_task :
        /\ ws_task[i].n = 3 /\ ws_task[i].c = 2
        /\ Defined(ws_task[i].pass2)
        /\ 0 < ws_task[i].pass2.num
        /\ ws_task[i].pass2.num < ws_task[i].pass2.den

\* the trials 1..c of a group taken as its successes: the share of the
\* k-samples with at least one success, as the pair <<favourable, all>>
AtLeastOneSuccess(n, c, k) ==
    <<Cardinality({S \in Samples(n, k) : S \cap (1..c) # {}}),
      Cardinality(Samples(n, k))>>

\* the share of the k-samples made of successes only
AllSuccesses(n, c, k) ==
    <<Cardinality({S \in Samples(n, k) : S \subseteq 1..c}),
      Cardinality(Samples(n, k))>>

\* C9 (as claimed): a defined Pass@k value is the probability that at least
\* one of k trials sampled without replacement from the n trials succeeded.
C9_ProbabilityAtLeastOneSuccess ==
    \A i \in DOMAIN ws_task : \A k \in Ks :
        LET row == ws_task[i]
            v == PassAt(row, k)
            p == AtLeastOneSuccess(row.n, row.c, k)
        IN  Defined(v) => v.num * p[2] = p[1] * v.den

\* C9 (amended): a defined Pass@k value is the probability that all of k
\* trials sampled without replacement from the n trials succeeded.
C9_ProbabilityAllSucceed ==
    \A i \in DOMAIN ws_task : \A k \in Ks :
        LET row == ws_task[i]
            v == PassAt(row, k)
            p == AllSuccesses(row.n, row.c, k)
        IN  Defined(v) => v.num * p[2] = p[1] * v.den

\* C9 witness: n = 3, c = 2: Pass@2 = 1/3, the one sample of two successes
\* out of three samples (a sample with at least one success is certain)
C9_Witness ==
    /\ pc = "saved"
    /\ \E i \in DOMAIN ws_task :
        /\ ws_task[i].n = 3 /\ ws_task[i].c = 2
        /\ RatEq(ws_task[i].pass2, Rat(1, 3))
        /\ AllSuccesses(3, 2, 2) = <<1, 3>>
        /\ AtLeastOneSuccess(3, 2, 2) = <<3, 3>>

\* C10: every row of the task aggregate has 0 <= c <= n.
C10_SuccessCountWithinTrialCount ==
    \A i \in DOMAIN ws_task :
        /\ 0 <= ws_task[i].c
        /\ ws_task[i].c <= ws_task[i].n

\* C10 witness: two task groups of one model, one with 0 < c < n and one
\* with c = n
C10_Witness ==
    /\ pc = "saved"
    /\ \E i, j \in DOMAIN ws_task :
        /\ ws_task[i].Model = ws_task[j].Model
        /\ 0 < ws_task[i].c /\ ws_task[i].c < ws_task[i].n
        /\ ws_task[j].c = ws_task[j].n /\ ws_task[j].n > 1

\* the structured calls of the history whose payload is the string s
StringCalls(s) ==
    {i \in DOMAIN calls : calls[i].source = "structured" /\ calls[i].raw = RawStr(s)}

\* C11: recovering the arguments of a tool call never raises and always
\* returns a mapping, for every string payload: an empty or whitespace
\* string and 'null'/'none' in any letter case give {}, a valid JSON object
\* gives that object, a valid JSON value that is not an object gives
\* {"_args": value}, malformed JSON and unrecoverable text give {}.
C11_RecoveryNeverRaises ==
    /\ pc # "crashed"
    /\ \A i \in DOMAIN calls : calls[i].value.type = "dict"
    /\ \A s \in {"", "  ", "null", "None", "NULL", "oops", "{\"id\": 1"} :
        \A i \in StringCalls(s) : calls[i].value = PyVal("dict", "{}")
    /\ \A i \in StringCalls("{\"id\": 1}") : calls[i].value = PyVal("dict", "{\"id\": 1}")
    /\ \A i \in StringCalls("[1]") : calls[i].value = PyVal("dict", "{\"_args\": [1]}")
    /\ \A i \in StringCalls("\"a:b\"") :
        calls[i].value = PyVal("dict", "{\"_args\": \"a:b\"}")

\* C11 witness: a trial was saved after a call with malformed JSON, one with
\* a JSON list and one with 'NULL' were recovered
C11_Witness ==
    /\ pc = "ingest"
    /\ \E i \in StringCalls("{\"id\": 1") : calls[i].value = EmptyDict
    /\ \E i \in StringCalls("[1]") \cup StringCalls("NULL") : calls[i].value.type = "dict"

\* C12: a payload that is already a mapping is returned unchanged, and the
\* recovery applied to its own result returns that result.
C12_RecoveryIsIdempotent ==
    \A i \in DOMAIN calls :
        /\ (calls[i].source = "structured" /\ calls[i].raw.kind = "dict") =>
              calls[i].value = PyVal("dict", calls[i].raw.text)
        /\ calls[i].again.done => calls[i].again.value = calls[i].value

\* C12 witness: the recovery was applied again to a mapping obtained from a
\* string payload, and a dict payload was recovered
C12_Witness ==
    /\ \E i \in DOMAIN calls :
        /\ calls[i].again.done
        /\ calls[i].raw.kind = "str"
        /\ calls[i].value # EmptyDict
    /\ \E i \in DOMAIN calls : calls[i].raw = RawDict("{\"id\": 1}")

\* the string payloads that reach the three strategies
Strategic(s) == strip(s) # "" /\ lower(strip(s)) \notin {"null", "none"}

\* C13: for a string that is neither empty nor null, strict JSON is tried
\* first, the Python literal second, the brace-wrap heuristic third; the
\* result is that of the first strategy that parses (under "_args" when it
\* is not a mapping) and a later strategy is used only when every earlier
\* one failed; {'a': 1} is recovered to {"a": 1} by the literal strategy.
C13_StrategiesInFixedOrder ==
    /\ \A i \in DOMAIN calls :
        (calls[i].source = "structured" /\ calls[i].raw.kind = "str"
            /\ Strategic(calls[i].raw.text)) =>
           LET s == strip(calls[i].raw.text)
               json_parses == ~json_loads(s).raises
               literal_parses == ~literal_eval(s).raises
           IN  /\ calls[i].path \in {"json", "literal", "wrap", "failed"}
               /\ calls[i].path = "json" <=> json_parses
               /\ calls[i].path = "literal" <=> ~json_parses /\ literal_parses
               /\ calls[i].path \in {"wrap", "failed"} <=> ~json_parses /\ ~literal_parses
               /\ calls[i].path = "failed" => calls[i].value = EmptyDict
    /\ \A i \in StringCalls("{'a': 1}") :
        calls[i].path = "literal" /\ calls[i].value = PyVal("dict", "{\"a\": 1}")
    /\ \A i \in StringCalls("{\"a\": \"\\/\"}") :
        calls[i].value = PyVal("dict", "{\"a\": \"/\"}")
    /\ \A i \in StringCalls("True") : calls[i].value = PyVal("dict", "{\"_args\": true}")
    /\ \A i \in StringCalls("\"status\": \"ok\"") :
        calls[i].path = "wrap" /\ calls[i].value = PyVal("dict", "{\"status\": \"ok\"}")

\* C13 witness: {'a': 1} was recovered by the literal strategy, a payload
\* that both JSON and the literal parse was recovered, and one was recovered
\* by the wrap
C13_Witness ==
    /\ \E i \in StringCalls("{'a': 1}") : calls[i].path = "literal"
    /\ \E i \in StringCalls("{\"a\": \"\\/\"}") \cup StringCalls("\"status\": \"ok\"") :
        calls[i].path \in {"json", "wrap"}

\* C14: the text  status: "ok"  is recovered by the brace-wrap heuristic to
\* {"status": "ok"}; in general a text that does not start with "{" and
\* contains ":" is recovered to a mapping that is not empty.
C14_BraceWrapRecoversStatusOk ==
    /\ \A i \in StringCalls("status: \"ok\"") :
        calls[i].value = PyVal("dict", "{\"status\": \"ok\"}")
    /\ \A i \in DOMAIN calls :
        (calls[i].source = "structured" /\ calls[i].raw.kind = "str"
            /\ Strategic(calls[i].raw.text)
            /\ ~startswith_brace(strip(calls[i].raw.text))
            /\ contains_colon(strip(calls[i].raw.text))) =>
           calls[i].value # EmptyDict

\* the ways a call ends with an empty mapping put in place of its arguments
EmptiedPaths ==
    {"none", "empty", "failed", "text_nobrace", "text_unclosed", "text_failed"}

\* the calls of the trial whose arguments the recovery replaced by {}
EmptiedCalls == {i \in DOMAIN calls : calls[i].path \in EmptiedPaths}

\* C15: every tool call whose arguments were replaced by an empty mapping
\* (absent, empty, null/none or unparseable payload, on the structured path
\* or on the "[TOOL_CALLS" text path) is counted in the tool-argument error
\* count of its trial, so a trial with such a call never has count 0.
C15_EveryEmptiedCallIsCounted ==
    \A k \in DOMAIN runs :
        /\ EmptiedCalls # {} => runs[k].ToolArgsJSONErrorCount > 0
        /\ Cardinality(EmptiedCalls) <= runs[k].ToolArgsJSONErrorCount

C17_AbsentRewardScoresZero ==
    /\ \A i \in DOMAIN runs :
        (~sims[i].reward.present /\ ~sims[i].info_reward.present) =>
            /\ runs[i].Reward = Rat(0, 1)
            /\ runs[i].Pass = 0
            /\ all_logs[i].Reward = Rat(0, 1)
            /\ all_logs[i].Pass = 0
    /\ \A i \in DOMAIN ws_run :
        (~sims[i].reward.present /\ ~sims[i].info_reward.present) =>
            ws_run[i].PASS = "FAIL"

\* C17 witness: a record without reward that ended with agent_stop and has
\* neither failed assertions nor argument errors is reported FAIL
C17_Witness ==
    /\ pc = "saved"
    /\ \E i \in DOMAIN ws_run :
        /\ ~sims[i].reward.present
        /\ ~sims[i].info_reward.present
        /\ sims[i].termination_reason = "agent_stop"
        /\ ws_run[i].FailedEnvAssertions = <<>>
        /\ ws_run[i].ToolArgsJSONErrorCount = 0
        /\ ws_run[i].PASS = "FAIL"

\* C18: reading a task or a trial record never raises, whatever fields are
\* missing, null or of an unexpected type: every record read has its
\* verdict row.
C18_IngestNeverRaises ==
    /\ pc # "crashed"
    /\ Len(runs) = Len(sims)

\* the names of the tool calls of all the messages of a record
CalledIn(sim) ==
    UNION {{sim.messages[j].tool_calls[k].name : k \in DOMAIN sim.messages[j].tool_calls} :
              j \in DOMAIN sim.messages} \ {""}

\* the names of the ground-truth actions of the task of a record
RequiredFor(sim) ==
    LET meta == task_meta[<<"retail", sim.task_id>>]
    IN  IF meta.present THEN SetOf(meta.actions) \ {""} ELSE {}

\* C19: for every trial, required is the set of the ground-truth action
\* names without duplicates, called is the set of the tool names of the
\* calls of the whole transcript, and missing is required minus called:
\* missing is included in required, disjoint from called, and empty exactly
\* when every required tool was called.
C19_MissingIsRequiredMinusCalled ==
    \A i \in DOMAIN runs :
        LET required == runs[i].RequiredTools
            called == runs[i].CalledTools
            missing == runs[i].MissingTools
        IN  /\ SetOf(required) = RequiredFor(sims[i])
            /\ Cardinality(SetOf(required)) = Len(required)
            /\ SetOf(called) = CalledIn(sims[i])
            /\ Cardinality(SetOf(called)) = Len(called)
            /\ SetOf(missing) = SetOf(required) \ SetOf(called)
            /\ Cardinality(SetOf(missing)) = Len(missing)
            /\ SetOf(missing) \subseteq SetOf(required)
            /\ SetOf(missing) \cap SetOf(called) = {}
            /\ missing = <<>> <=> SetOf(required) \subseteq SetOf(called)
            /\ required = <<>> => missing = <<>>

\* C19 witness: the ground truth names refund twice, the transcript calls
\* get_order and cancel_order and never refund: refund alone is missing
C19_Witness ==
    /\ pc = "saved"
    /\ task_meta[<<"retail", "1">>].actions = <<"refund", "", "refund">>
    /\ \E i \in DOMAIN runs :
        /\ runs[i].RequiredTools = <<"refund">>
        /\ runs[i].CalledTools = <<"cancel_order", "get_order">>
        /\ runs[i].MissingTools = <<"refund">>

\* the assertions of a record whose met flag is explicitly false
FalseAssertions(sim) ==
    SelectSeq(sim.env_assertions, LAMBDA item : item.is_dict /\ item.met = "False")

TaskRowsOf(model, d) ==
    SelectSeq(ws_task, LAMBDA row : row.Model = model /\ row.Domain = d)

\* the Pass@k of a task with n trials and c successes, n >= k
TruePassAt(row, k) == XlReduced(Binomial(row.c, k), Binomial(row.n, k))

\* two cells hold the same thing: both blank, or the same number
SameCell(a, b) ==
    IF a.kind = "num" /\ b.kind = "num" THEN a.num * b.den = b.num * a.den
    ELSE a.kind = b.kind

\* C21: for each model, domain and k, the domain score is the arithmetic
\* mean of the Pass@k of the tasks of the domain with n >= k trials, each
\* task weighted equally; the tasks with n < k are the only ones left out
\* (the score is blank when no task has n >= k).
C21_DomainScoreIsMeanOverTasks ==
    pc = "saved" =>
        \A m \in DOMAIN models_mapping, i \in DOMAIN domains, k \in Ks :
            LET rows == TaskRowsOf(models_mapping[m], domains[i])
                counted == SelectSeq(rows, LAMBDA row : row.n >= k)
                mean == AVERAGE([j \in DOMAIN counted |-> TruePassAt(counted[j], k)])
            IN  SameCell(PassAt(ws_summary.matrix[m][i], k), IFERROR(mean, XlBlank))

\* C22: for each model and k, the overall score of the ranking table and
\* the one of the row "Overall" of the matrix are both the arithmetic mean of
\* the model's domain scores, each domain weighted equally.
C22_OverallIsMeanOfDomainScores ==
    pc = "saved" =>
        \A m \in DOMAIN models_mapping, k \in Ks :
            LET scores == [i \in DOMAIN domains |-> PassAt(ws_summary.matrix[m][i], k)]
                mean == IFERROR(AVERAGE(scores), XlBlank)
            IN  /\ SameCell(PassAt(ws_summary.overall[m], k), mean)
                /\ SameCell(PassAt(ws_summary.ranking[m], k), mean)

\* the number a score cell stands for in the ranking (a blank counts as 0)
Score(row, k) == N(PassAt(row, k))

Higher(x, y) == x.num * y.den > y.num * x.den

\* the triple of row r is above the triple of row q in lexicographic order
LexAbove(r, q) ==
    LET a == ws_summary.ranking[r]
        b == ws_summary.ranking[q]
    IN  \/ Higher(Score(a, 1), Score(b, 1))
        \/ /\ SameCell(Score(a, 1), Score(b, 1))
           /\ Higher(Score(a, 2), Score(b, 2))
        \/ /\ SameCell(Score(a, 1), Score(b, 1))
           /\ SameCell(Score(a, 2), Score(b, 2))
           /\ Higher(Score(a, 4), Score(b, 4))

SameTriple(r, q) == ~LexAbove(r, q) /\ ~LexAbove(q, r)

\* C23: the rank is lexicographic on (Pass@1, Pass@2, Pass@4): of two
\* models, the one with the higher Pass@1 ranks ahead whatever the other
\* scores; with equal Pass@1 the higher Pass@2 ranks ahead; with equal
\* Pass@1 and Pass@2 the higher Pass@4 ranks ahead.
C23_RankIsLexicographic ==
    \A r, q \in DOMAIN ws_summary.rank :
        LexAbove(r, q) => ws_summary.rank[r] < ws_summary.rank[q]

\* C24: two models with the same (Pass@1, Pass@2, Pass@4) are ranked in
\* their input order, the model listed earlier getting the better rank, and
\* the ranks are those the same data give whenever the report is generated.
C24_TiesKeepInputOrder ==
    /\ \A r, q \in DOMAIN ws_summary.rank :
        (r < q /\ SameTriple(r, q)) => ws_summary.rank[r] < ws_summary.rank[q]
    /\ pc = "saved" => ws_summary.rank = RankColumn(RankingRows(models_mapping, ws_task))

\* C30: every model of the ranking table gets a number as rank, a model
\* without trials included (its blank scores count as 0); the ranks of the M
\* models are pairwise distinct and are exactly 1..M.
C30_RanksArePermutation ==
    pc = "saved" =>
        /\ DOMAIN ws_summary.rank = DOMAIN models_mapping
        /\ \A r \in DOMAIN ws_summary.rank : ws_summary.rank[r] \in 1..Len(models_mapping)
        /\ \A r, q \in DOMAIN ws_summary.rank :
            r # q => ws_summary.rank[r] # ws_summary.rank[q]
        /\ {ws_summary.rank[r] : r \in DOMAIN ws_summary.rank} = 1..Len(models_mapping)

\* C30 witness: models A and B have trials and the same scores, model C has
\* none and its cells are blank; the three ranks differ
C30_Witness ==
    /\ pc = "saved"
    /\ Len(ws_summary.ranking) = 3
    /\ ws_summary.ranking[1].pass1.kind = "num"
    /\ SameTriple(1, 2)
    /\ ws_summary.ranking[3].pass1 = XlBlank
    /\ Cardinality({ws_summary.rank[r] : r \in DOMAIN ws_summary.rank}) = 3

\* C28: in a task group whose Pass@1, Pass@2 and Pass@4 are all defined,
\* Pass@1 >= Pass@2 >= Pass@4, and each Pass@k is 1 exactly when every trial
\* succeeded (c = n).
C28_PassAtKDecreasesInK ==
    pc = "saved" =>
        \A i \in DOMAIN ws_task :
            LET row == ws_task[i]
            IN  (\A k \in Ks : Defined(PassAt(row, k))) =>
                    /\ ~Higher(row.pass2, row.pass1)
                    /\ ~Higher(row.pass4, row.pass2)
                    /\ \A k \in Ks :
                        (PassAt(row, k).num = PassAt(row, k).den) <=> (row.c = row.n)

\* C28 witness: five trials, four of them passed: 4/5 > 3/5 > 1/5
C28_Witness ==
    /\ pc = "saved"
    /\ Len(ws_task) = 1
    /\ ws_task[1].n = 5
    /\ ws_task[1].c = 4
    /\ Defined(ws_task[1].pass4)
    /\ Higher(ws_task[1].pass1, ws_task[1].pass2)
    /\ Higher(ws_task[1].pass2, ws_task[1].pass4)

\* the run rows of a (model, domain, task id)
RunsOf(model, domain, task_id) ==
    {i \in DOMAIN runs :
        /\ runs[i].ModelLabel = model
        /\ runs[i].Domain = domain
        /\ runs[i].TaskID = task_id}

\* C29: every record read becomes a run row, and the n (c) of a task group
\* is the number of run rows (of passed run rows) with its model, domain and
\* task id, rows that repeat a trial index included: nothing is de-duplicated.
C29_TrialsAreNotDeduplicated ==
    pc = "saved" =>
        /\ Len(runs) = Len(sims)
        /\ \A i \in DOMAIN ws_task :
            LET row == ws_task[i]
                mine == RunsOf(row.Model, row.Domain, row.TaskID)
            IN  /\ row.n = Cardinality(mine)
                /\ row.c = Cardinality({j \in mine : runs[j].Pass = 1})

\* C29 witness: the same passed trial 0 read twice counts twice in n and c
C29_Witness ==
    /\ pc = "saved"
    /\ Len(sims) = 2
    /\ sims[1] = sims[2]
    /\ sims[1].trial = 0
    /\ Len(ws_task) = 1
    /\ ws_task[1].n = 2
    /\ ws_task[1].c = 2

\* the assistant messages of ms that carry text or tool calls
Speaking(ms) ==
    {j \in DOMAIN ms :
        /\ ms[j].role = "assistant"
        /\ (Truthy(ms[j].content) \/ ms[j].tool_calls # <<>>)}

Last(S) == CHOOSE j \in S : \A q \in S : q <= j

\* C25: the final assistant text of a run is decided by the last assistant
\* message that carries text or tool calls: its text when it has some, the
\* JSON rendering of its tool calls when it has calls and no text; messages of
\* other roles and assistant messages with neither change nothing (the text is
\* empty when no assistant message carries text or calls).
C25_FinalTextIsLastAssistantOutput ==
    \A i \in DOMAIN runs :
        LET ms == sims[i].messages
            final == runs[i].AgentFinalRaw
        IN  IF Speaking(ms) = {} THEN final = ""
            ELSE LET msg == ms[Last(Speaking(ms))]
                 IN  IF Truthy(msg.content) THEN final = msg.content
                     ELSE final = json_dumps(msg.tool_calls)

\* C25 witness: a text, then tool calls without text, then an empty
\* assistant message: the final text is the rendering of the calls
C25_Witness ==
    /\ Len(runs) = 1
    /\ Len(sims[1].messages) = 3
    /\ sims[1].messages[1] = Msg("assistant", "first", <<>>, <<>>)
    /\ sims[1].messages[2] = Msg("assistant", "", OneCall, OneRawCall)
    /\ sims[1].messages[3] = Msg("assistant", "", <<>>, <<>>)
    /\ runs[1].AgentFinalRaw = "[{\"name\": \"get_order\", \"arguments\": <dict>}]"

\* the assistant messages of ms that carry both text and tool calls
TextAndCalls(ms) ==
    {j \in DOMAIN ms :
        /\ ms[j].role = "assistant"
        /\ Truthy(ms[j].content)
        /\ ms[j].tool_calls # <<>>}

\* agent_final after message j of run i
FinalAfter(i, j) ==
    IF j = Len(sims[i].messages) THEN runs[i].AgentFinalRaw
    ELSE agent_final(SubSeq(sims[i].messages, 1, j))

\* C26 as stated: an assistant message with both text and tool calls
\* leaves the final text as it was before the message.
C26_TextAndCallsKeepPrevious ==
    \A i \in DOMAIN runs :
        \A j \in TextAndCalls(sims[i].messages) : FinalAfter(i, j) = FinalAfter(i, j - 1)

\* C26: an assistant message with both text and tool calls sets the
\* final text to its own text; its tool calls are not rendered and the
\* previous value is replaced.
C26_TextAndCallsTakeText ==
    \A i \in DOMAIN runs :
        \A j \in TextAndCalls(sims[i].messages) :
            FinalAfter(i, j) = sims[i].messages[j].content

\* C26 witness: a text, then a message with another text and a tool call
C26_Witness ==
    /\ Len(runs) = 1
    /\ Len(sims[1].messages) = 2
    /\ sims[1].messages[1] = Msg("assistant", "first", <<>>, <<>>)
    /\ sims[1].messages[2] = Msg("assistant", "second", OneCall, OneRawCall)
    /\ runs[1].AgentFinalRaw = "second"

\* the verdict of a run row
Verdict(run) ==
    [Pass |-> run.Pass,
     RequiredTools |-> run.RequiredTools,
     CalledTools |-> run.CalledTools,
     MissingTools |-> run.MissingTools,
     FailedEnvAssertions |-> run.FailedEnvAssertions,
     FailTag |-> RunSheetRow(run).FailTag]

\* C27: the verdict of every trial read so far (pass flag, required, called
\* and missing tools, failed assertions, taxonomy tag) is the one its own
\* record gets against the ground truth of its task, whatever files and trials
\* were read before or after it.
C27_VerdictFromOwnRecordAndTask ==
    \A i \in DOMAIN runs :
        LET meta == task_meta[<<runs[i].Domain, runs[i].TaskID>>]
        IN  Verdict(runs[i])
                = Verdict(RunRow(runs[i].ModelLabel, runs[i].Domain, sims[i], meta))

====
